---------------------------- MODULE Spec2Model ----------------------------
(***************************************************************************)
(* gobank: a JSON-over-HTTP account service.                               *)
(*                                                                         *)
(* The sources hold two builds of the API (src/api.go:1-181 routes         *)
(* /account/{id} through withJWTAuth, src/api.go:183-314 does not) and two *)
(* builds of the storage adapter (src/storage.go keeps a `number` column   *)
(* and stubs DeleteAccount, src/api.go:316-514 keeps `email` and           *)
(* `encrypted_password` and deletes rows).  The build is chosen in Init    *)
(* and never changes.  Every HTTP request is one atomic action: requests   *)
(* are non-overlapping.                                                    *)
(*                                                                         *)
(* Strings whose content the code inspects (id path segments, passwords,   *)
(* emails, names) are sequences of one-character strings.                  *)
(***************************************************************************)
EXTENDS Integers, Sequences, FiniteSets, TLC

VARIABLES
    jwtBuild,      \* TRUE: Run of src/api.go:83-92, FALSE: Run of src/api.go:227-236
    schema,        \* "number": src/storage.go, "email": src/api.go:316-514
    rejectsLong,   \* the linked bcrypt returns ErrPasswordTooLong (newer x/crypto)
    store,         \* the rows of table account
    nextId,        \* the next value of the serial column id
    created,       \* history: ids of the rows ever inserted
    deleted,       \* history: ids whose DELETE was answered 200 "OK"
    inserted,      \* history: id of the row the last request inserted (0: none)
    issued,        \* history: <<token, account number>> pairs createJWT produced
    now,           \* the clock the JWT library reads, in seconds since 1970
    req,           \* the last request
    resp,          \* the response written for it
    calls,         \* the Storage methods the last request invoked, in order
    passed,        \* the last request reached the handler behind its route
    outcome,       \* what that handler did: "ok", "err", "panic"; "none": it did not run
    na             \* the last direct call of NewAccount and its result

vars == <<jwtBuild, schema, rejectsLong, store, nextId, created, deleted,
          inserted, issued, now, req, resp, calls, passed, outcome, na>>

(***************************************************************************)
(* Bounds of the model.                                                    *)
(***************************************************************************)
MaxAccounts == 2
MaxTicks == 1

(***************************************************************************)
(* Program and library constants.                                          *)
(***************************************************************************)
ExpiresAt == 15000
StatusOK == 200
StatusBadRequest == 400
StatusForbidden == 403
BcryptMaxLen == 72
MinPasswordLen == 8

Rep(c, n) == [i \in 1..n |-> c]

(***************************************************************************)
(* strconv.Atoi, as getIDFromRequest uses it: an optional sign followed by *)
(* one or more decimal digits.  The segments of the model are far from the *)
(* int range, so the out-of-range error is not reached.                    *)
(***************************************************************************)
DigitChars == {"0", "1", "2", "3", "4", "5", "6", "7", "8", "9"}

DigitVal(c) ==
    CASE c = "0" -> 0 [] c = "1" -> 1 [] c = "2" -> 2 [] c = "3" -> 3
      [] c = "4" -> 4 [] c = "5" -> 5 [] c = "6" -> 6 [] c = "7" -> 7
      [] c = "8" -> 8 [] c = "9" -> 9

RECURSIVE DigitsVal(_)
DigitsVal(s) ==
    IF s = <<>> THEN 0
    ELSE 10 * DigitsVal(SubSeq(s, 1, Len(s) - 1)) + DigitVal(s[Len(s)])

Atoi(s) ==
    LET signed == Len(s) > 0 /\ s[1] \in {"+", "-"}
        digits == IF signed THEN Tail(s) ELSE s
        wellFormed == Len(digits) > 0 /\ \A i \in 1..Len(digits) : digits[i] \in DigitChars
    IN  IF ~wellFormed THEN [err |-> TRUE, val |-> 0]
        ELSE [err |-> FALSE,
              val |-> IF signed /\ s[1] = "-" THEN 0 - DigitsVal(digits)
                      ELSE DigitsVal(digits)]

(***************************************************************************)
(* bcrypt (golang.org/x/crypto/bcrypt), as NewAccount uses it.  The key    *)
(* schedule reads the NUL-terminated password cyclically and consumes the  *)
(* first 72 bytes of that stream; the digest is a one-way function of      *)
(* cost, salt and those bytes, modelled by its arguments.  Newer releases  *)
(* of the library refuse to hash a password of more than 72 bytes.         *)
(***************************************************************************)
DefaultCost == "10"

KeyStream(password) ==
    LET ckey == Append(password, "NUL")
    IN  [i \in 1..BcryptMaxLen |-> ckey[((i - 1) % Len(ckey)) + 1]]

bcrypt(password, cost, salt) == <<"$2a$", cost, salt>> \o KeyStream(password)

GenerateFromPassword(password, cost, salt, strict) ==
    IF strict /\ Len(password) > BcryptMaxLen
    THEN [err |-> TRUE, hash |-> <<>>]
    ELSE [err |-> FALSE, hash |-> bcrypt(password, cost, salt)]

CompareHashAndPassword(hash, password) ==
    /\ Len(hash) >= 3
    /\ hash[1] = "$2a$"
    /\ bcrypt(password, hash[2], hash[3]) = hash

(***************************************************************************)
(* The Account record (src/types.go:16-25), with the Number field of the   *)
(* build that src/storage.go and createJWT read.                           *)
(***************************************************************************)
Account(id, firstName, lastName, email, number, encpw) ==
    [ID |-> id, FirstName |-> firstName, LastName |-> lastName, Email |-> email,
     Number |-> number, Phone |-> 0, EncryptedPassword |-> encpw, Balance |-> 0]

ZeroAccount == Account(0, <<>>, <<>>, <<>>, 0, <<>>)

\* A plausible slip: the hash column receives the password as given.
NewAccountStoresPlaintext(firstName, lastName, email, password, salt, strict) ==
    [err |-> FALSE, acc |-> Account(0, firstName, lastName, email, 0, password)]

NewAccount(firstName, lastName, email, password, salt, strict) ==
    LET g == GenerateFromPassword(password, DefaultCost, salt, strict)
    IN  IF g.err THEN [err |-> TRUE, acc |-> ZeroAccount]
        ELSE [err |-> FALSE, acc |-> Account(0, firstName, lastName, email, 0, g.hash)]


(***************************************************************************)
(* JSON Web Tokens (github.com/golang-jwt/jwt/v5).  A token string is      *)
(* empty, not a three-segment token, or a header naming the algorithm, a   *)
(* claims map and a signature.  A claim that may be absent is a set of at  *)
(* most one value.  A signature is a one-way function of the algorithm,    *)
(* the key and the signed claims, modelled by its arguments.               *)
(***************************************************************************)
JWT_SECRET == "server-secret"

HMACAlgs == {"HS256", "HS384", "HS512"}

Claims(accountNumber, expiresAt, exp) ==
    [accountNumber |-> accountNumber, expiresAt |-> expiresAt, exp |-> exp]

Sign(alg, key, claims) == [alg |-> alg, key |-> key, claims |-> claims]

Token(alg, claims, sig) == [form |-> "jwt", alg |-> alg, claims |-> claims, sig |-> sig]

NoClaims == Claims({}, {}, {})

EmptyToken == [form |-> "empty", alg |-> "", claims |-> NoClaims, sig |-> Sign("", "", NoClaims)]

GarbageToken == [form |-> "garbage", alg |-> "", claims |-> NoClaims, sig |-> Sign("", "", NoClaims)]

\* src/api.go:54-64: no "exp" claim is set.
createJWT(account) ==
    LET claims == Claims({account.Number}, {ExpiresAt}, {})
    IN  Token("HS256", claims, Sign("HS256", JWT_SECRET, claims))

\* A plausible slip: the key function hands out the key for any algorithm
\* and the signature is not compared.
validateJWTUnverified(tokenString, clock) ==
    IF tokenString.form # "jwt"
    THEN [err |-> TRUE, valid |-> FALSE, claims |-> NoClaims]
    ELSE [err |-> FALSE, valid |-> TRUE, claims |-> tokenString.claims]

(***************************************************************************)
(* jwt.Parse with the key function of validateJWT: the token is split and  *)
(* decoded, the key function refuses every method outside the HMAC family, *)
(* the signature is recomputed under JWT_SECRET, and the registered claims *)
(* are validated: of those only "exp" can occur here, and a token without  *)
(* it never expires.  "expiresAt" is not a registered claim.               *)
(***************************************************************************)
validateJWT(tokenString, clock) ==
    LET bad == [err |-> TRUE, valid |-> FALSE, claims |-> NoClaims]
    IN  IF tokenString.form # "jwt" THEN bad
        ELSE IF tokenString.alg \notin HMACAlgs THEN bad
        ELSE IF tokenString.sig # Sign(tokenString.alg, JWT_SECRET, tokenString.claims) THEN bad
        ELSE IF \E e \in tokenString.claims.exp : ~(clock < e) THEN bad
        ELSE [err |-> FALSE, valid |-> TRUE, claims |-> tokenString.claims]


(***************************************************************************)
(* Request bodies.  A JSON field is absent, a string or a number.          *)
(* encoding/json leaves the zero value for an absent field, ignores        *)
(* unknown fields, and fails on a value of the wrong JSON type and on a    *)
(* body that is not JSON.                                                  *)
(***************************************************************************)
Absent == [t |-> "absent", s |-> <<>>, n |-> 0]

Str(s) == [t |-> "str", s |-> s, n |-> 0]

Num(n) == [t |-> "num", s |-> <<>>, n |-> n]

GarbageBody == [form |-> "garbage"]

StringField(f) == IF f.t = "str" THEN f.s ELSE <<>>

IntField(f) == IF f.t = "num" THEN f.n ELSE 0

\* json.NewDecoder(r.Body).Decode(createAccountReq), src/types.go:9-14
DecodeCreateAccountRequest(body) ==
    LET zero == [FirstName |-> <<>>, LastName |-> <<>>, Email |-> <<>>, Password |-> <<>>]
    IN  IF body.form # "json" THEN [err |-> TRUE, v |-> zero]
        ELSE IF \E f \in {body.firstName, body.lastName, body.email, body.password} : f.t = "num"
        THEN [err |-> TRUE, v |-> zero]
        ELSE [err |-> FALSE,
              v |-> [FirstName |-> StringField(body.firstName),
                     LastName |-> StringField(body.lastName),
                     Email |-> StringField(body.email),
                     Password |-> StringField(body.password)]]

\* json.NewDecoder(r.Body).Decode(tr), src/types.go:27-30
DecodeTransferRequest(body) ==
    LET zero == [ToAccount |-> 0, Amount |-> 0]
    IN  IF body.form # "json" THEN [err |-> TRUE, v |-> zero]
        ELSE IF \E f \in {body.toAccount, body.amount} : f.t = "str"
        THEN [err |-> TRUE, v |-> zero]
        ELSE [err |-> FALSE,
              v |-> [ToAccount |-> IntField(body.toAccount), Amount |-> IntField(body.amount)]]

(***************************************************************************)
(* The validate tags of CreateAccountRequest (src/types.go:9-14):          *)
(* required,min=1 / required,min=1 / required,email / required,min=8.      *)
(* An email is taken as one "@" between two non-empty parts.               *)
(***************************************************************************)
IsEmail(s) ==
    \E i \in 1..Len(s) :
        /\ s[i] = "@"
        /\ 1 < i /\ i < Len(s)
        /\ \A j \in 1..Len(s) : s[j] = "@" => j = i

ValidCreateAccountRequest(v) ==
    /\ Len(v.FirstName) >= 1
    /\ Len(v.LastName) >= 1
    /\ IsEmail(v.Email)
    /\ Len(v.Password) >= MinPasswordLen

(***************************************************************************)
(* Responses.  The JSON view of an Account leaves EncryptedPassword out    *)
(* (json:"-", src/types.go:22).                                            *)
(***************************************************************************)
AccountJSON(acc) ==
    [id |-> acc.ID, firstName |-> acc.FirstName, lastName |-> acc.LastName,
     email |-> acc.Email, number |-> acc.Number, phone |-> acc.Phone,
     balance |-> acc.Balance]

NoResponse == [status |-> 0, body |-> [kind |-> "none"]]

WriteJSON(status, v) == [status |-> status, body |-> v]

APIError == [kind |-> "error"]

\* A plausible slip: the error envelope goes out with the default status.
makeHTTPHandleFuncStatusOK(h) ==
    IF h.outcome = "err" THEN WriteJSON(StatusOK, APIError) ELSE h.written

(***************************************************************************)
(* makeHTTPHandleFunc: h is what the wrapped handler did: outcome "ok",    *)
(* "err" (it returned an error) or "panic", and the response it had        *)
(* written by then.  A second WriteHeader does not change a status already *)
(* written.  A panic is recovered by net/http, which drops the connection. *)
(***************************************************************************)
makeHTTPHandleFunc(h) ==
    IF h.outcome = "err"
    THEN IF h.written = NoResponse THEN WriteJSON(StatusBadRequest, APIError)
         ELSE h.written
    ELSE IF h.outcome = "panic" THEN NoResponse
    ELSE h.written


(***************************************************************************)
(* The storage adapter.  rows is the table, seq the next value of the      *)
(* serial id.  fault is what the driver does to the request's statement:   *)
(* "none", "stmt" (Query, QueryRow or Exec returns an error) or "prepare"  *)
(* (db.Prepare returns an error; only CreateAccount of src/api.go          *)
(* prepares).  A result is [outcome, rows, seq, acc, accs].                *)
(***************************************************************************)
StoreResult(result, rows, seq, acc) ==
    [outcome |-> result, rows |-> rows, seq |-> seq, acc |-> acc]

\* src/storage.go:76-90: the row keeps id, first_name, last_name, number,
\* balance (src/storage.go:149-161); nothing is read back into acc.
CreateAccountNumber(rows, seq, acc, fault) ==
    IF fault = "stmt" THEN StoreResult("err", rows, seq, acc)
    ELSE StoreResult("ok",
                     rows \cup {Account(seq, acc.FirstName, acc.LastName, <<>>, acc.Number, <<>>)},
                     seq + 1, acc)

\* src/api.go:394-410: the error of Prepare is overwritten, so a failed
\* Prepare leaves stmt nil and stmt.Exec panics.  The row keeps id,
\* first_name, last_name, email, encrypted_password, balance
\* (src/api.go:468-480: no UNIQUE constraint on email).
CreateAccountEmail(rows, seq, acc, fault) ==
    IF fault = "prepare" THEN StoreResult("panic", rows, seq, acc)
    ELSE IF fault = "stmt" THEN StoreResult("err", rows, seq, acc)
    ELSE StoreResult("ok",
                     rows \cup {Account(seq, acc.FirstName, acc.LastName, acc.Email, 0,
                                        acc.EncryptedPassword)},
                     seq + 1, acc)

CreateAccount(variant, rows, seq, acc, fault) ==
    IF variant = "number" THEN CreateAccountNumber(rows, seq, acc, fault)
    ELSE CreateAccountEmail(rows, seq, acc, fault)

\* src/storage.go:92-109 (QueryRow.Scan: sql.ErrNoRows without a row) and
\* src/api.go:412-428 (rows.Next() is false without a row and Scan fails).
GetAccountByID(variant, rows, seq, id, fault) ==
    IF fault = "stmt" THEN StoreResult("err", rows, seq, ZeroAccount)
    ELSE IF \E r \in rows : r.ID = id
    THEN StoreResult("ok", rows, seq, CHOOSE r \in rows : r.ID = id)
    ELSE StoreResult("err", rows, seq, ZeroAccount)

\* src/storage.go:113-115 returns nil and touches nothing;
\* src/api.go:434-441 runs DELETE FROM account WHERE id=$1.
DeleteAccount(variant, rows, seq, id, fault) ==
    IF variant = "number" THEN StoreResult("ok", rows, seq, ZeroAccount)
    ELSE IF fault = "stmt" THEN StoreResult("err", rows, seq, ZeroAccount)
    ELSE StoreResult("ok", {r \in rows : r.ID # id}, seq, ZeroAccount)

\* src/storage.go:121-143, src/api.go:447-462
GetAccounts(variant, rows, seq, fault) ==
    IF fault = "stmt" THEN StoreResult("err", rows, seq, ZeroAccount)
    ELSE StoreResult("ok", rows, seq, ZeroAccount)

(***************************************************************************)
(* The handlers.  A result is what makeHTTPHandleFunc reads (outcome,      *)
(* written) and what the handler did: the table and sequence it leaves,    *)
(* the Storage methods it called, the token it issued (a set of at most    *)
(* one <<token, number>>).                                                 *)
(***************************************************************************)
HandlerResult(result, written, rows, seq, called, tokens) ==
    [outcome |-> result, written |-> written, rows |-> rows, seq |-> seq,
     calls |-> called, tokens |-> tokens]

Failed(rows, seq, called) == HandlerResult("err", NoResponse, rows, seq, called, {})

\* src/api.go:132-139, src/api.go:276-283
handleGetAllAccounts(variant, rows, seq, fault) ==
    LET g == GetAccounts(variant, rows, seq, fault)
    IN  IF g.outcome = "err" THEN Failed(rows, seq, <<"GetAccounts">>)
        ELSE HandlerResult("ok",
                           WriteJSON(StatusOK, [kind |-> "accounts",
                                                accounts |-> {AccountJSON(r) : r \in g.rows}]),
                           rows, seq, <<"GetAccounts">>, {})

(***************************************************************************)
(* The account handleCreateAccount builds (src/api.go:146, src/api.go:290). *)
(* In the build with the email column the factory is NewAccount of         *)
(* src/types.go:32-44, fed from the decoded request.  In the build with    *)
(* the number column the factory takes the two names; it is not among the  *)
(* sources, so the Number it gives the account is any number.              *)
(***************************************************************************)
BuildAccount(variant, strict, v, number, salt) ==
    IF variant = "email"
    THEN NewAccount(v.FirstName, v.LastName, v.Email, v.Password, salt, strict)
    ELSE [err |-> FALSE, acc |-> Account(0, v.FirstName, v.LastName, <<>>, number, <<>>)]

(***************************************************************************)
(* src/api.go:141-162 (withToken) and src/api.go:285-295.  The handler     *)
(* decodes the body, builds the account and inserts it: it neither         *)
(* validates the request nor looks the email up, and it answers with the   *)
(* account it built, not with the row.                                     *)
(***************************************************************************)
handleCreateAccount(withToken, variant, strict, rows, seq, body, number, salt, fault) ==
    LET d == DecodeCreateAccountRequest(body)
        n == BuildAccount(variant, strict, d.v, number, salt)
        account == n.acc
        c == CreateAccount(variant, rows, seq, account, fault)
        token == createJWT(account)
    IN  IF d.err THEN Failed(rows, seq, <<>>)
        ELSE IF n.err THEN Failed(rows, seq, <<>>)
        ELSE IF c.outcome = "err" THEN Failed(rows, seq, <<"CreateAccount">>)
        ELSE IF c.outcome = "panic"
        THEN HandlerResult("panic", NoResponse, rows, seq, <<"CreateAccount">>, {})
        ELSE IF withToken
        THEN HandlerResult("ok",
                           WriteJSON(StatusOK, [kind |-> "created", token |-> {token},
                                                account |-> AccountJSON(account)]),
                           c.rows, c.seq, <<"CreateAccount">>, {<<token, account.Number>>})
        ELSE HandlerResult("ok",
                           WriteJSON(StatusOK, [kind |-> "created", token |-> {},
                                                account |-> AccountJSON(account)]),
                           c.rows, c.seq, <<"CreateAccount">>, {})

\* src/api.go:94-103, src/api.go:238-247
handleAccount(withToken, variant, strict, rows, seq, method, body, number, salt, fault) ==
    IF method = "GET" THEN handleGetAllAccounts(variant, rows, seq, fault)
    ELSE IF method = "POST"
    THEN handleCreateAccount(withToken, variant, strict, rows, seq, body, number, salt, fault)
    ELSE Failed(rows, seq, <<>>)

\* src/api.go:174-181, src/api.go:307-314
getIDFromRequest(idStr) == Atoi(idStr)

\* A plausible slip: the error of getIDFromRequest is dropped and the zero
\* id it came with is used.
handleAccountByIDIgnoresIDError(variant, rows, seq, method, idStr, fault) ==
    LET id == getIDFromRequest(idStr).val
        g == GetAccountByID(variant, rows, seq, id, fault)
        x == DeleteAccount(variant, rows, seq, id, fault)
    IN  IF method = "GET"
        THEN IF g.outcome = "err" THEN Failed(rows, seq, <<"GetAccountByID">>)
             ELSE HandlerResult("ok",
                                WriteJSON(StatusOK, [kind |-> "account",
                                                     account |-> AccountJSON(g.acc)]),
                                rows, seq, <<"GetAccountByID">>, {})
        ELSE IF method = "DELETE"
        THEN IF x.outcome = "err" THEN Failed(rows, seq, <<"DeleteAccount">>)
             ELSE HandlerResult("ok", WriteJSON(StatusOK, [kind |-> "OK"]),
                                x.rows, x.seq, <<"DeleteAccount">>, {})
        ELSE Failed(rows, seq, <<>>)

\* src/api.go:105-130, src/api.go:249-274
handleAccountByID(variant, rows, seq, method, idStr, fault) ==
    LET p == getIDFromRequest(idStr)
        g == GetAccountByID(variant, rows, seq, p.val, fault)
        x == DeleteAccount(variant, rows, seq, p.val, fault)
    IN  IF p.err THEN Failed(rows, seq, <<>>)
        ELSE IF method = "GET"
        THEN IF g.outcome = "err" THEN Failed(rows, seq, <<"GetAccountByID">>)
             ELSE HandlerResult("ok",
                                WriteJSON(StatusOK, [kind |-> "account",
                                                     account |-> AccountJSON(g.acc)]),
                                rows, seq, <<"GetAccountByID">>, {})
        ELSE IF method = "DELETE"
        THEN IF x.outcome = "err" THEN Failed(rows, seq, <<"DeleteAccount">>)
             ELSE HandlerResult("ok", WriteJSON(StatusOK, [kind |-> "OK"]),
                                x.rows, x.seq, <<"DeleteAccount">>, {})
        ELSE Failed(rows, seq, <<>>)

\* A plausible slip: the stub starts moving money.
handleTransferDebits(rows, seq, body) ==
    LET d == DecodeTransferRequest(body)
    IN  IF d.err THEN Failed(rows, seq, <<>>)
        ELSE HandlerResult("ok",
                           WriteJSON(StatusOK, [kind |-> "transfer", toAccount |-> d.v.ToAccount,
                                                amount |-> d.v.Amount]),
                           {IF r.ID = d.v.ToAccount
                            THEN [r EXCEPT !.Balance = r.Balance + d.v.Amount] ELSE r : r \in rows},
                           seq, <<>>, {})

\* src/api.go:164-172, src/api.go:297-305: no method switch, no Storage call
handleTransfer(rows, seq, body) ==
    LET d == DecodeTransferRequest(body)
    IN  IF d.err THEN Failed(rows, seq, <<>>)
        ELSE HandlerResult("ok",
                           WriteJSON(StatusOK, [kind |-> "transfer", toAccount |-> d.v.ToAccount,
                                                amount |-> d.v.Amount]),
                           rows, seq, <<>>, {})

(***************************************************************************)
(* withJWTAuth, src/api.go:40-52: auth is what validateJWT returned, h     *)
(* what the wrapped handler does when it runs.  The result is the response *)
(* and whether the wrapped handler ran.                                    *)
(***************************************************************************)
withJWTAuth(auth, inner) ==
    IF auth.err \/ ~auth.valid
    THEN [ran |-> FALSE, resp |-> WriteJSON(StatusForbidden, APIError)]
    ELSE [ran |-> TRUE, resp |-> inner]


(***************************************************************************)
(* The inputs of the model.                                                *)
(***************************************************************************)
Qwerty12 == <<"q", "w", "e", "r", "t", "y", "1", "2">>

Salts == {"salt1", "salt2"}

\* The salt of a request's hash: it decides nothing in a handler.
RequestSalts == {"salt1"}

AccountNumbers == {11, 22}

JSONCreate(firstName, lastName, email, password) ==
    [form |-> "json", firstName |-> firstName, lastName |-> lastName,
     email |-> email, password |-> password]

CreateBodies ==
    {GarbageBody,
     JSONCreate(Str(<<"a">>), Str(<<"b">>), Str(<<"a", "@", "b">>), Str(Qwerty12)),
     JSONCreate(Str(<<"a">>), Str(<<"b">>), Str(<<"c", "@", "d">>), Str(Qwerty12)),
     JSONCreate(Str(<<"a">>), Str(<<"b">>), Absent, Str(<<"p", "w">>)),
     JSONCreate(Str(<<"a">>), Str(<<"b">>), Str(<<"q">>), Absent),
     JSONCreate(Str(<<"a">>), Str(<<"b">>), Str(<<"a", "@", "b">>), Str(Rep("x", BcryptMaxLen + 1))),
     JSONCreate(Str(<<"a">>), Num(5), Str(<<"a", "@", "b">>), Str(Qwerty12))}

JSONTransfer(toAccount, amount) ==
    [form |-> "json", toAccount |-> toAccount, amount |-> amount]

TransferBodies ==
    {GarbageBody,
     JSONTransfer(Num(1), Num(5)),
     JSONTransfer(Num(2), Num(0 - 3)),
     JSONTransfer(Absent, Num(5)),
     JSONTransfer(Str(<<"1">>), Num(5))}

IdSegments == {<<"1">>, <<"2">>, <<"-", "1">>, <<"a", "b", "c">>, <<"1", "x">>}

Honest(alg, key, claims) == Token(alg, claims, Sign(alg, key, claims))

\* Token strings a client may send: none, not a token, tokens signed by
\* whoever holds the key, and a token whose claims were changed after the
\* server signed it.
InputTokens ==
    {EmptyToken, GarbageToken}
    \cup {Honest("HS256", JWT_SECRET, Claims({n}, {ExpiresAt}, {})) : n \in AccountNumbers}
    \cup {Honest("HS256", "other-secret", Claims({11}, {ExpiresAt}, {}))}
    \cup {Honest("RS256", JWT_SECRET, Claims({11}, {ExpiresAt}, {}))}
    \cup {Honest("HS256", JWT_SECRET, Claims({11}, {}, {ExpiresAt + 2}))}
    \cup {Token("HS256", Claims({22}, {ExpiresAt}, {}),
                Sign("HS256", JWT_SECRET, Claims({11}, {ExpiresAt}, {})))}

NoCall == [called |-> FALSE, firstName |-> <<>>, lastName |-> <<>>, email |-> <<>>,
           password |-> <<>>, salt |-> "", err |-> FALSE, acc |-> ZeroAccount]

Request(route, method, token, idStr, body, fault) ==
    [route |-> route, method |-> method, token |-> token, idStr |-> idStr, body |-> body,
     fault |-> fault]

NoRequest == Request("", "", EmptyToken, <<>>, GarbageBody, "none")

\* The builds the sources allow: createJWT reads Account.Number, which
\* only the build with the number column has; bcrypt is linked only into
\* the build with the email column.
Builds ==
    {<<TRUE, "number", FALSE>>, <<FALSE, "number", FALSE>>,
     <<FALSE, "email", TRUE>>, <<FALSE, "email", FALSE>>}

Build == <<jwtBuild, schema, rejectsLong>>

Init ==
    /\ \E b \in Builds : jwtBuild = b[1] /\ schema = b[2] /\ rejectsLong = b[3]
    /\ store = {}
    /\ nextId = 1
    /\ created = {}
    /\ deleted = {}
    /\ inserted = 0
    /\ issued = {}
    /\ now = ExpiresAt + 1
    /\ req = NoRequest
    /\ resp = NoResponse
    /\ calls = <<>>
    /\ passed = FALSE
    /\ outcome = "none"
    /\ na = NoCall

\* Whether the Storage methods called sent a statement to the database:
\* DeleteAccount of src/storage.go:113-115 sends none.
RunsStatement(variant, called) ==
    /\ called # <<>>
    /\ ~(variant = "number" /\ called = <<"DeleteAccount">>)

\* What a request leaves of its handler's result h in the state.  A fault
\* is drawn only for a request that reaches the database.
Served(h, fault) ==
    /\ ~RunsStatement(schema, h.calls) => fault = "none"
    /\ store' = h.rows
    /\ nextId' = h.seq
    /\ created' = created \cup {r.ID : r \in h.rows}
    /\ inserted' = IF h.seq > nextId THEN nextId ELSE 0
    /\ issued' = issued \cup h.tokens
    /\ calls' = h.calls
    /\ outcome' = h.outcome

\* router.HandleFunc("/account", makeHTTPHandleFunc(s.handleAccount)),
\* src/api.go:85, src/api.go:229
ServeAccount(method, body, number, salt, fault) ==
    LET h == handleAccount(jwtBuild, schema, rejectsLong, store, nextId, method, body,
                           number, salt, fault)
    IN  /\ method = "POST" => nextId <= MaxAccounts
        /\ req' = Request("/account", method, EmptyToken, <<>>, body, fault)
        /\ resp' = makeHTTPHandleFunc(h)
        /\ Served(h, fault)
        /\ passed' = TRUE
        /\ UNCHANGED <<Build, deleted, now, na>>

\* router.HandleFunc("/account/{id}", ...): behind withJWTAuth in
\* src/api.go:86, bare in src/api.go:230
ServeAccountByID(method, idStr, token, fault) ==
    LET h == handleAccountByID(schema, store, nextId, method, idStr, fault)
        idle == HandlerResult("none", NoResponse, store, nextId, <<>>, {})
        w == IF jwtBuild THEN withJWTAuth(validateJWT(token, now), makeHTTPHandleFunc(h))
             ELSE [ran |-> TRUE, resp |-> makeHTTPHandleFunc(h)]
        done == IF w.ran THEN h ELSE idle
    IN  /\ req' = Request("/account/{id}", method, token, idStr, GarbageBody, fault)
        /\ resp' = w.resp
        /\ Served(done, fault)
        /\ passed' = w.ran
        /\ deleted' = IF w.ran /\ method = "DELETE" /\ w.resp.status = StatusOK
                      THEN deleted \cup ({getIDFromRequest(idStr).val} \cap created)
                      ELSE deleted
        /\ UNCHANGED <<Build, now, na>>

\* router.HandleFunc("/transfer", makeHTTPHandleFunc(s.handleTransfer)),
\* src/api.go:87, src/api.go:231
ServeTransfer(method, body) ==
    LET h == handleTransfer(store, nextId, body)
    IN  /\ req' = Request("/transfer", method, EmptyToken, <<>>, body, "none")
        /\ resp' = makeHTTPHandleFunc(h)
        /\ Served(h, "none")
        /\ passed' = TRUE
        /\ UNCHANGED <<Build, deleted, now, na>>

\* Time passes on the clock validateJWT reads.
Tick ==
    /\ jwtBuild
    /\ now < ExpiresAt + 1 + MaxTicks
    /\ now' = now + 1
    /\ UNCHANGED <<Build, store, nextId, created, deleted, inserted, issued, req, resp,
                   calls, passed, outcome, na>>

\* The x-jwt-token header is read only behind withJWTAuth.
HeaderTokens == IF jwtBuild THEN InputTokens \cup {t[1] : t \in issued} ELSE {EmptyToken}

Next ==
    \/ \E fault \in {"none", "stmt"} : ServeAccount("GET", GarbageBody, 0, "salt1", fault)
    \/ \E body \in CreateBodies,
          number \in (IF schema = "number" THEN AccountNumbers ELSE {0}),
          salt \in RequestSalts,
          fault \in (IF schema = "email" THEN {"none", "stmt", "prepare"} ELSE {"none", "stmt"}) :
          ServeAccount("POST", body, number, salt, fault)
    \/ \E method \in {"DELETE", "PUT"} : ServeAccount(method, GarbageBody, 0, "salt1", "none")
    \/ \E method \in {"GET", "DELETE", "PUT"}, idStr \in IdSegments, token \in HeaderTokens,
          fault \in {"none", "stmt"} :
          ServeAccountByID(method, idStr, token, fault)
    \/ \E method \in {"POST", "GET"}, body \in TransferBodies : ServeTransfer(method, body)
    \/ Tick

Spec == Init /\ [][Next]_vars


(***************************************************************************)
(* NewAccount on its own, as TestNewAccount (src/unnamed/part_000) calls   *)
(* it: only the builds that hold src/types.go, and no request is served.   *)
(***************************************************************************)
FirstNames == {<<"a">>, <<>>}

LastNames == {<<"b">>}

Emails == {<<"a", "@", "b">>, <<"q", "w", "e", "r", "t", "y">>}

Passwords ==
    {<<>>, <<"a">>, <<"a", "a">>, <<"a", "NUL", "a">>, Qwerty12,
     <<"a", "b", "c", "@", "a", "b", "c", ".", "c", "o", "m">>,
     Rep("x", BcryptMaxLen - 1), Rep("x", BcryptMaxLen), Rep("x", BcryptMaxLen + 1),
     Append(Rep("x", BcryptMaxLen), "y")}

TestNewAccount(firstName, lastName, email, password, salt) ==
    LET r == NewAccount(firstName, lastName, email, password, salt, rejectsLong)
    IN  /\ na' = [called |-> TRUE, firstName |-> firstName, lastName |-> lastName,
                  email |-> email, password |-> password, salt |-> salt,
                  err |-> r.err, acc |-> r.acc]
        /\ UNCHANGED <<Build, store, nextId, created, deleted, inserted, issued, now, req,
                       resp, calls, passed, outcome>>

InitNewAccount == Init /\ schema = "email"

NextNewAccount ==
    \E firstName \in FirstNames, lastName \in LastNames, email \in Emails,
       password \in Passwords, salt \in Salts :
       TestNewAccount(firstName, lastName, email, password, salt)

SpecNewAccount == InitNewAccount /\ [][NextNewAccount]_vars

(***************************************************************************)
(* Vocabulary of the properties.                                           *)
(***************************************************************************)
OnAccount == req.route = "/account"

OnAccountByID == req.route = "/account/{id}"

OnTransfer == req.route = "/transfer"

IssuedTokens == {p[1] : p \in issued}

ErrorEnvelope(status) == resp.status = status /\ resp.body = APIError

\* The token header is missing, is no token, names an algorithm outside
\* the HMAC family, or was signed under another secret than the server's.
Unacceptable(t) ==
    \/ t.form = "empty"
    \/ t.form = "garbage"
    \/ t.form = "jwt" /\ t.alg \notin HMACAlgs
    \/ t.form = "jwt" /\ t.sig.key # JWT_SECRET

HasNUL(s) == \E i \in 1..Len(s) : s[i] = "NUL"

C2_IssuedTokenExpires ==
    (/\ jwtBuild /\ OnAccountByID
     /\ req.token \in IssuedTokens
     /\ \E e \in req.token.claims.expiresAt : now > e)
        => (ErrorEnvelope(StatusForbidden) /\ ~passed)

(***************************************************************************)
(* C3: no two stored accounts share an email: a POST /account whose email  *)
(* is already stored is refused and inserts nothing.                       *)
(***************************************************************************)
C3_EmailUnique ==
    schema = "email" => \A r1, r2 \in store : r1.Email = r2.Email => r1 = r2

(***************************************************************************)
(* C4: a POST /account whose body does not satisfy the validate tags of    *)
(* CreateAccountRequest is answered 400 and inserts no row.                *)
(***************************************************************************)
C4_CreateValidated ==
    (/\ OnAccount /\ req.method = "POST"
     /\ ~DecodeCreateAccountRequest(req.body).err
     /\ ~ValidCreateAccountRequest(DecodeCreateAccountRequest(req.body).v))
        => (ErrorEnvelope(StatusBadRequest) /\ inserted = 0)

(***************************************************************************)
(* C5: GET /account/{id} answers 200, with the account of that id, only    *)
(* for an id that was inserted and not since deleted by a DELETE answered  *)
(* 200; for any other id it answers with the error envelope.               *)
(***************************************************************************)
C5_GetOnlyLive ==
    (OnAccountByID /\ req.method = "GET" /\ passed) =>
        LET p == getIDFromRequest(req.idStr)
            live == ~p.err /\ p.val \in created \ deleted
        IN  /\ resp.status = StatusOK =>
                  (live /\ resp.body.kind = "account" /\ resp.body.account.id = p.val)
            /\ ~live => ErrorEnvelope(StatusBadRequest)

(***************************************************************************)
(* C6: the account a successful POST /account returns carries the id the   *)
(* storage gave the inserted row.                                          *)
(***************************************************************************)
C6_CreatedIdReturned ==
    (OnAccount /\ req.method = "POST" /\ resp.status = StatusOK) =>
        (inserted # 0 /\ resp.body.account.id = inserted)

C7_BadIdState ==
    (OnAccountByID /\ req.method \in {"GET", "DELETE"} /\ getIDFromRequest(req.idStr).err) =>
        /\ resp.status \in {StatusBadRequest, StatusForbidden}
        /\ resp.body = APIError
        /\ calls = <<>>
        /\ inserted = 0

C7_BadIdFrame ==
    (req'.route = "/account/{id}" /\ getIDFromRequest(req'.idStr).err) =>
        (store' = store /\ nextId' = nextId)

(***************************************************************************)
(* C7: a GET or DELETE of /account/{id} whose id segment is no integer is  *)
(* answered with an error, no Storage method is invoked for it and the     *)
(* table is left as it was.                                                *)
(***************************************************************************)
C7_BadIdRejected == []C7_BadIdState /\ [][C7_BadIdFrame]_vars

C7_Witness ==
    /\ OnAccountByID /\ req.method = "DELETE"
    /\ getIDFromRequest(req.idStr).err
    /\ passed
    /\ ErrorEnvelope(StatusBadRequest)
    /\ store # {}

C8_TransferState ==
    OnTransfer =>
        LET d == DecodeTransferRequest(req.body)
        IN  /\ calls = <<>>
            /\ inserted = 0
            /\ ~d.err =>
                  /\ resp.status = StatusOK
                  /\ resp.body = [kind |-> "transfer", toAccount |-> IntField(req.body.toAccount),
                                  amount |-> IntField(req.body.amount)]

C8_TransferFrame ==
    req'.route = "/transfer" => (store' = store /\ nextId' = nextId)

(***************************************************************************)
(* C8: a request to /transfer invokes no Storage method and leaves the     *)
(* table as it was; when its body decodes, the answer is 200 with the      *)
(* decoded toAccount and amount.                                           *)
(***************************************************************************)
C8_TransferIsStub == []C8_TransferState /\ [][C8_TransferFrame]_vars

C8_Witness ==
    /\ OnTransfer
    /\ req.body.form = "json"
    /\ resp.status = StatusOK
    /\ resp.body.amount = 5
    /\ \E r \in store : r.ID = resp.body.toAccount

(***************************************************************************)
(* C9: whenever the handler behind makeHTTPHandleFunc returns an error,    *)
(* the response is 400 with the error envelope; an unsupported method, a   *)
(* non-integer id, a body that does not decode and a failed statement each *)
(* make the handler return an error.                                       *)
(***************************************************************************)
C9_ErrorsAre400 ==
    /\ outcome = "err" => ErrorEnvelope(StatusBadRequest)
    /\ (OnAccount /\ req.method \notin {"GET", "POST"}) => outcome = "err"
    /\ (OnAccountByID /\ passed /\ req.method \notin {"GET", "DELETE"}) => outcome = "err"
    /\ (OnAccountByID /\ passed /\ getIDFromRequest(req.idStr).err) => outcome = "err"
    /\ (OnAccount /\ req.method = "POST" /\ DecodeCreateAccountRequest(req.body).err)
           => outcome = "err"
    /\ (OnTransfer /\ DecodeTransferRequest(req.body).err) => outcome = "err"
    /\ req.fault = "stmt" => outcome = "err"

C9_Witness ==
    /\ outcome = "err"
    /\ req.fault = "stmt"
    /\ calls = <<"GetAccountByID">>
    /\ ErrorEnvelope(StatusBadRequest)

(***************************************************************************)
(* C10, as claimed: NewAccount with non-empty arguments returns no error   *)
(* and an Account with those names and email whose hash verifies against   *)
(* the password, rejects every other password, and is not the password.    *)
(***************************************************************************)
C10_AnyPassword ==
    (/\ na.called
     /\ na.firstName # <<>> /\ na.lastName # <<>> /\ na.email # <<>> /\ na.password # <<>>)
        => /\ ~na.err
           /\ na.acc.FirstName = na.firstName
           /\ na.acc.LastName = na.lastName
           /\ na.acc.Email = na.email
           /\ CompareHashAndPassword(na.acc.EncryptedPassword, na.password)
           /\ \A q \in Passwords \ {na.password} :
                  ~CompareHashAndPassword(na.acc.EncryptedPassword, q)
           /\ na.acc.EncryptedPassword # na.password

Hashable(q) == Len(q) <= BcryptMaxLen /\ ~HasNUL(q)

(***************************************************************************)
(* C10, amended: the same for a password of at most 72 bytes without a NUL *)
(* byte, against every other such password.                                *)
(***************************************************************************)
C10_HashablePassword ==
    (/\ na.called
     /\ na.firstName # <<>> /\ na.lastName # <<>> /\ na.email # <<>> /\ na.password # <<>>
     /\ Hashable(na.password))
        => /\ ~na.err
           /\ na.acc.FirstName = na.firstName
           /\ na.acc.LastName = na.lastName
           /\ na.acc.Email = na.email
           /\ CompareHashAndPassword(na.acc.EncryptedPassword, na.password)
           /\ \A q \in Passwords \ {na.password} :
                  Hashable(q) => ~CompareHashAndPassword(na.acc.EncryptedPassword, q)
           /\ na.acc.EncryptedPassword # na.password

C10_Witness ==
    /\ na.called
    /\ na.firstName # <<>> /\ na.lastName # <<>> /\ na.email # <<>>
    /\ Len(na.password) = BcryptMaxLen
    /\ ~na.err
    /\ CompareHashAndPassword(na.acc.EncryptedPassword, na.password)
    /\ ~CompareHashAndPassword(na.acc.EncryptedPassword, Rep("x", BcryptMaxLen - 1))

=============================================================================
